---- MODULE Spec2Model ----
(***************************************************************************)
(* A model of iterutils (src/src/lib.rs): the three lazy merge combinators *)
(* SeqIter, MultiIterator and OrderedIterator.                             *)
(*                                                                         *)
(* One combinator instance is modelled per behaviour (kind says which one  *)
(* was constructed).  Rust indices are kept 0-based; TLA+ sequences are    *)
(* 1-based, so  v[i]  of the source is  v[i + 1]  here.                    *)
(*                                                                         *)
(* An element of type T is a record [v, src, k]: v is the value the        *)
(* program compares (T: Ord), src and k say which add call and which       *)
(* position of that sequence the element came from.  The program never     *)
(* reads src or k: they only let the properties tell equal values apart.   *)
(***************************************************************************)
EXTENDS Integers, Sequences, FiniteSets, Bags, TLC

\* Bounds of the model.
MaxSeqs == 3        \* add calls per run
MaxTotal == 3       \* elements over all added sequences
Values == {1, 2}    \* the values v of the elements

-----------------------------------------------------------------------------
\* Option<T>
None == <<>>
Some(x) == <<x>>
is_some(o) == o # None
is_none(o) == o = None
unwrap(o) == o[1]

\* Ord for T (i32 in the tests): x.cmp(&y)
cmp(x, y) == IF x.v < y.v THEN "Less" ELSE IF x.v = y.v THEN "Equal" ELSE "Greater"

\* Vec::remove(index): the vector without the element at 0-based index.
Vec_remove(vec, index) ==
    [i \in 1..(Len(vec) - 1) |-> IF i <= index THEN vec[i] ELSE vec[i + 1]]

\* Box<dyn Iterator<Item = T>> over a finite sequence (vec.into_iter()):
\* rest is what it has not yet produced, polls counts the calls of next() on it.
BoxIter(values, src) ==
    [rest  |-> [k \in 1..Len(values) |-> [v |-> values[k], src |-> src, k |-> k]],
     polls |-> 0]

\* iter.next(): the item produced and the iterator afterwards.
iter_next(iter) ==
    IF iter.rest = <<>>
    THEN [item |-> None, iter |-> [iter EXCEPT !.polls = @ + 1]]
    ELSE [item |-> Some(Head(iter.rest)),
          iter |-> [rest |-> Tail(iter.rest), polls |-> iter.polls + 1]]

-----------------------------------------------------------------------------
VARIABLES
    kind,             \* which combinator this run constructed
    seq_iter,         \* SeqIter        [ptr, iters]
    min_iter,         \* MultiIterator  [head, iters]
    choose_function,  \* MultiIterator.choose_function: the part of the function seen so far
    o_iter,           \* OrderedIterator [comparator, head, iters]
    added,            \* history: the value sequences given to add, in call order
    out,              \* history: the elements next() returned, in order
    lastOp,           \* history: the last call, "new", "add" or "next"
    lastRet,          \* history: what the last next() returned
    o_out,            \* history: what the OrderedIterator beside a MultiIterator returned
    lateAdd,          \* history: add was called after a next()
    panicked          \* the program aborted in an unwrap, an index or a subtraction

vars == <<kind, seq_iter, min_iter, choose_function, o_iter,
          added, out, lastOp, lastRet, o_out, lateAdd, panicked>>

\* The value sequences a caller may still add.
RECURSIVE SeqsOfLen(_)
SeqsOfLen(n) ==
    IF n = 0 THEN {<<>>}
    ELSE {Append(s, x) : s \in SeqsOfLen(n - 1), x \in Values}

RECURSIVE SumLen(_)
SumLen(ss) == IF ss = <<>> THEN 0 ELSE Len(Head(ss)) + SumLen(Tail(ss))

Inputs == UNION {SeqsOfLen(n) : n \in 0..(MaxTotal - SumLen(added))}

-----------------------------------------------------------------------------
\* SeqIter

SeqIter_new == [ptr |-> 0, iters |-> <<>>]

\* A variant of add that starts over from the first sequence.
SeqIter_add_rewinds(self, iter) == [ptr |-> 0, iters |-> Append(self.iters, iter)]

\* A variant of add that pulls a first element, as the other two adds do.
SeqIter_add_peeks(self, iter) ==
    [self EXCEPT !.iters = Append(@, iter_next(iter).iter)]

\* A variant of add that puts the new sequence first.
SeqIter_add_first(self, iter) == [self EXCEPT !.iters = <<iter>> \o @]
SeqIter_add(self, iter) == [self EXCEPT !.iters = Append(@, iter)]

\* get_current: self.iters.get_mut(self.ptr)
SeqIter_get_current(self) ==
    IF self.ptr < Len(self.iters) THEN Some(self.iters[self.ptr + 1]) ELSE None

RECURSIVE SeqIter_next(_)

\* A variant of next that reports exhaustion when the current sequence
\* is exhausted, instead of retrying on the following one.
SeqIter_next_no_retry(self) ==
    LET target == SeqIter_get_current(self) IN
    IF is_none(target)
    THEN [self |-> self, ret |-> None, panic |-> FALSE]
    ELSE LET n  == iter_next(unwrap(target))
             s1 == [self EXCEPT !.iters[self.ptr + 1] = n.iter]
         IN  IF is_some(n.item)
             THEN [self |-> s1, ret |-> n.item, panic |-> FALSE]
             ELSE [self |-> [s1 EXCEPT !.ptr = @ + 1], ret |-> None, panic |-> FALSE]

\* A variant of next that unwraps the current iterator without looking at
\* is_none first.
SeqIter_next_no_none_check(self) ==
    LET target == SeqIter_get_current(self) IN
    IF is_none(target)
    THEN [self |-> self, ret |-> None, panic |-> TRUE]
    ELSE LET n  == iter_next(unwrap(target))
             s1 == [self EXCEPT !.iters[self.ptr + 1] = n.iter]
         IN  IF is_some(n.item)
             THEN [self |-> s1, ret |-> n.item, panic |-> FALSE]
             ELSE SeqIter_next([s1 EXCEPT !.ptr = @ + 1])

\* A variant of next that moves past the end of iters when nothing is left.
SeqIter_next_overruns(self) ==
    LET target == SeqIter_get_current(self) IN
    IF is_none(target)
    THEN [self  |-> [self EXCEPT !.ptr = Len(self.iters) + 1],
          ret   |-> None,
          panic |-> FALSE]
    ELSE LET n  == iter_next(unwrap(target))
             s1 == [self EXCEPT !.iters[self.ptr + 1] = n.iter]
         IN  IF is_some(n.item)
             THEN [self |-> s1, ret |-> n.item, panic |-> FALSE]
             ELSE SeqIter_next([s1 EXCEPT !.ptr = @ + 1])

SeqIter_next(self) ==
    LET target == SeqIter_get_current(self) IN
    IF is_none(target)
    THEN [self |-> self, ret |-> None, panic |-> FALSE]
    ELSE LET n  == iter_next(unwrap(target))
             s1 == [self EXCEPT !.iters[self.ptr + 1] = n.iter]
         IN  IF is_some(n.item)
             THEN [self |-> s1, ret |-> n.item, panic |-> FALSE]
             ELSE SeqIter_next([s1 EXCEPT !.ptr = @ + 1])

-----------------------------------------------------------------------------
\* MultiIterator

MultiIterator_new == [head |-> <<>>, iters |-> <<>>]

\* A variant of add that registers the new sequence before the others.
MultiIterator_add_front(self, iter) ==
    LET n == iter_next(iter) IN
    IF is_some(n.item)
    THEN [head  |-> <<unwrap(n.item)>> \o self.head,
          iters |-> <<n.iter>> \o self.iters]
    ELSE self

MultiIterator_add(self, iter) ==
    LET n == iter_next(iter) IN
    IF is_some(n.item)
    THEN [head  |-> Append(self.head, unwrap(n.item)),
          iters |-> Append(self.iters, n.iter)]
    ELSE self

\* What a choose function is given: the head elements; it sees their values.
HeadValues(head) == [i \in 1..Len(head) |-> head[i].v]

\* A variant of the choose function with max_by for min_by: the index of
\* the last greatest value.
choose_fn_max_by(x) ==
    IF Len(x) = 0 THEN None
    ELSE Some((CHOOSE i \in 1..Len(x) :
                  /\ \A j \in 1..Len(x) : x[i] >= x[j]
                  /\ \A j \in (i + 1)..Len(x) : x[j] < x[i]) - 1)

\* The choose function of the tests and of the documentation example:
\* x.iter().enumerate().min_by(|x, y| x.1.cmp(&y.1)).map(|x| x.0),
\* the index of the first least value, None for no values.
choose_fn(x) ==
    IF Len(x) = 0 THEN None
    ELSE Some((CHOOSE i \in 1..Len(x) :
                  /\ \A j \in 1..Len(x) : x[i] <= x[j]
                  /\ \A j \in 1..(i - 1) : x[j] > x[i]) - 1)

\* What a choose function may answer for n heads: None, a valid index, or
\* an index that is out of range.
ChooseAnswers(n) == {None} \cup {Some(i) : i \in 0..n}

\* choose_function is a fn pointer fixed at construction: the same heads get
\* the same answer.  f is the function as known after this call, which is the
\* function known before plus, for heads not seen before, any answer.
ChooseFunctionsAfter(f, head) ==
    LET x == HeadValues(head) IN
    IF x \in DOMAIN f THEN {f}
    ELSE {[y \in DOMAIN f \cup {x} |-> IF y = x THEN a ELSE f[y]] :
            a \in ChooseAnswers(Len(x))}

\* index > self.head.len() - 1, once head.len() - 1 did not go below 0.
MultiIterator_index_off_by_one(self, index) == index > Len(self.head)
MultiIterator_index_invalid(self, index) == index > Len(self.head) - 1

\* The chosen sequence is exhausted: its iterator and its head slot are
\* removed and the old head is returned.
\* A variant that removes the head slot and keeps the exhausted iterator.
MultiIterator_retire_keeps_iter(self, index) ==
    [self  |-> [head  |-> Vec_remove(self.head, index),
                iters |-> self.iters],
     ret   |-> Some(self.head[index + 1]),
     panic |-> FALSE]

\* A variant that removes the last iterator and head slot, not the chosen ones.
MultiIterator_retire_last(self, index) ==
    [self  |-> [head  |-> Vec_remove(self.head, Len(self.head) - 1),
                iters |-> Vec_remove(self.iters, Len(self.iters) - 1)],
     ret   |-> Some(self.head[index + 1]),
     panic |-> FALSE]

MultiIterator_retire(self, index) ==
    [self  |-> [head  |-> Vec_remove(self.head, index),
                iters |-> Vec_remove(self.iters, index)],
     ret   |-> Some(self.head[index + 1]),
     panic |-> FALSE]

\* The chosen sequence gave next_elem: it is swapped into the head slot and
\* the old head is returned.  iter is the chosen iterator after the pull.
\* A variant that returns the new element, not the old head.
MultiIterator_swap_returns_new(self, index, next_elem, iter) ==
    [self  |-> [head  |-> [self.head EXCEPT ![index + 1] = next_elem],
                iters |-> [self.iters EXCEPT ![index + 1] = iter]],
     ret   |-> Some(next_elem),
     panic |-> FALSE]

MultiIterator_swap(self, index, next_elem, iter) ==
    [self  |-> [head  |-> [self.head EXCEPT ![index + 1] = next_elem],
                iters |-> [self.iters EXCEPT ![index + 1] = iter]],
     ret   |-> Some(self.head[index + 1]),
     panic |-> FALSE]

\* A variant of choose that takes the last head for an index out of range.
MultiIterator_choose_clamped(self, f) ==
    LET quiet == [self |-> self, ret |-> None, panic |-> FALSE] IN
    IF Len(self.head) = 0 THEN quiet
    ELSE
    LET index == f[HeadValues(self.head)] IN
    IF is_none(index) THEN quiet
    ELSE
    LET i == IF MultiIterator_index_invalid(self, unwrap(index))
             THEN Len(self.head) - 1
             ELSE unwrap(index)
        n == iter_next(self.iters[i + 1])
    IN  IF is_none(n.item)
        THEN MultiIterator_retire(self, i)
        ELSE MultiIterator_swap(self, i, unwrap(n.item), n.iter)

\* choose: the combinator afterwards, what next() returns, and whether the
\* call aborted (an unwrap of None, an index out of bounds, a usize below 0).
MultiIterator_choose(self, f) ==
    LET quiet == [self |-> self, ret |-> None, panic |-> FALSE]
        abort == [self |-> self, ret |-> None, panic |-> TRUE]
    IN
    IF Len(self.head) = 0 THEN quiet
    ELSE
    LET index == f[HeadValues(self.head)] IN
    IF is_none(index) THEN quiet
    ELSE
    LET i == unwrap(index) IN
    IF Len(self.head) - 1 < 0 THEN abort
    ELSE IF MultiIterator_index_invalid(self, i) THEN quiet
    ELSE IF i >= Len(self.iters) THEN abort
    ELSE
    LET n == iter_next(self.iters[i + 1]) IN
    IF i >= Len(self.head) THEN abort
    ELSE IF is_none(n.item)
         THEN MultiIterator_retire(self, i)
         ELSE MultiIterator_swap(self, i, unwrap(n.item), n.iter)

-----------------------------------------------------------------------------
\* OrderedIterator

\* The comparator closures of new_min and new_max.
\* A variant of the new_min closure that does not reverse the comparison.
comparator_new_min_not_reversed(x, y) == cmp(x, y)
comparator_new_min(x, y) == cmp(y, x)
\* A variant of the new_max closure that reverses the comparison.
comparator_new_max_reversed(x, y) == cmp(y, x)
comparator_new_max(x, y) == cmp(x, y)
apply_comparator(c, x, y) ==
    IF c = "new_min" THEN comparator_new_min(x, y) ELSE comparator_new_max(x, y)

OrderedIterator_new_min == [comparator |-> "new_min", head |-> EmptyBag, iters |-> <<>>]
OrderedIterator_new_max == [comparator |-> "new_max", head |-> EmptyBag, iters |-> <<>>]

\* impl Ord for HeapItem
\* A variant that compares other with self.
HeapItem_cmp_swapped(a, other) == apply_comparator(a.comparator, other.what, a.what)
HeapItem_cmp(a, other) == apply_comparator(a.comparator, a.what, other.what)

\* BinaryHeap<HeapItem<T>>: a bag of items; pop removes a greatest item, any
\* one of them when several compare equal.
BinaryHeap_push(heap, item) == heap (+) SetToBag({item})
BinaryHeap_len(heap) == BagCardinality(heap)
BinaryHeap_pop(heap) ==
    IF BagCardinality(heap) = 0 THEN {[item |-> None, heap |-> heap]}
    ELSE {[item |-> Some(a), heap |-> heap (-) SetToBag({a})] :
            a \in {b \in BagToSet(heap) :
                     \A c \in BagToSet(heap) : HeapItem_cmp(b, c) # "Less"}}

\* A variant of add that registers the sequence and loses its seed element.
OrderedIterator_add_seed_lost(self, iter) ==
    LET n  == iter_next(iter)
        n2 == iter_next(n.iter)
    IN
    IF is_some(n.item) /\ is_some(n2.item)
    THEN [self EXCEPT !.head  = BinaryHeap_push(@, [what       |-> unwrap(n2.item),
                                                    comparator |-> self.comparator,
                                                    iter_index |-> Len(self.iters)]),
                      !.iters = Append(@, n2.iter)]
    ELSE self

\* A variant of add that takes the number of heap entries as the slot index.
OrderedIterator_add_index_of_heap(self, iter) ==
    LET n == iter_next(iter) IN
    IF is_some(n.item)
    THEN LET item == [what       |-> unwrap(n.item),
                      comparator |-> self.comparator,
                      iter_index |-> BinaryHeap_len(self.head)]
         IN  [self EXCEPT !.head  = BinaryHeap_push(@, item),
                          !.iters = Append(@, n.iter)]
    ELSE self

OrderedIterator_add(self, iter) ==
    LET n == iter_next(iter) IN
    IF is_some(n.item)
    THEN LET item == [what       |-> unwrap(n.item),
                      comparator |-> self.comparator,
                      iter_index |-> Len(self.iters)]
         IN  [self EXCEPT !.head  = BinaryHeap_push(@, item),
                          !.iters = Append(@, n.iter)]
    ELSE self

\* A variant of choose that returns the element it pulled, when there is one.
OrderedIterator_choose_returns_next(self, popped) ==
    LET quiet == [self |-> self, ret |-> None, panic |-> FALSE] IN
    IF BinaryHeap_len(self.head) = 0 THEN quiet
    ELSE
    LET chosen       == unwrap(popped.item)
        chosen_index == chosen.iter_index
        n            == iter_next(self.iters[chosen_index + 1])
        iters        == [self.iters EXCEPT ![chosen_index + 1] = n.iter]
    IN
    IF is_some(n.item)
    THEN [self  |-> [comparator |-> self.comparator,
                     head       |-> BinaryHeap_push(popped.heap,
                                       [comparator |-> self.comparator,
                                        iter_index |-> chosen_index,
                                        what       |-> unwrap(n.item)]),
                     iters      |-> iters],
          ret   |-> n.item,
          panic |-> FALSE]
    ELSE [self  |-> [comparator |-> self.comparator,
                     head       |-> popped.heap,
                     iters      |-> iters],
          ret   |-> Some(chosen.what),
          panic |-> FALSE]

\* choose, for one outcome popped of self.head.pop().
OrderedIterator_choose(self, popped) ==
    LET quiet == [self |-> self, ret |-> None, panic |-> FALSE]
        abort == [self |-> self, ret |-> None, panic |-> TRUE]
    IN
    IF BinaryHeap_len(self.head) = 0 THEN quiet
    ELSE IF is_none(popped.item) THEN quiet
    ELSE
    LET chosen       == unwrap(popped.item)
        chosen_index == chosen.iter_index
    IN
    IF chosen_index >= Len(self.iters) THEN abort
    ELSE
    LET n     == iter_next(self.iters[chosen_index + 1])
        iters == [self.iters EXCEPT ![chosen_index + 1] = n.iter]
    IN
    IF is_some(n.item)
    THEN [self  |-> [comparator |-> self.comparator,
                     head       |-> BinaryHeap_push(popped.heap,
                                       [comparator |-> self.comparator,
                                        iter_index |-> chosen_index,
                                        what       |-> unwrap(n.item)]),
                     iters      |-> iters],
          ret   |-> Some(chosen.what),
          panic |-> FALSE]
    ELSE [self  |-> [comparator |-> self.comparator,
                     head       |-> popped.heap,
                     iters      |-> iters],
          ret   |-> Some(chosen.what),
          panic |-> FALSE]

-----------------------------------------------------------------------------
Init ==
    /\ kind \in {"SeqIter", "MultiIterator", "OrderedIterator"}
    /\ seq_iter = SeqIter_new
    /\ min_iter = MultiIterator_new
    /\ choose_function = <<>>
    /\ o_iter \in IF kind = "OrderedIterator"
                  THEN {OrderedIterator_new_min, OrderedIterator_new_max}
                  ELSE {OrderedIterator_new_min}
    /\ added = <<>>
    /\ out = <<>>
    /\ lastOp = "new"
    /\ lastRet = None
    /\ o_out = <<>>
    /\ lateAdd = FALSE
    /\ panicked = FALSE

\* What every add call records.
NoteAdd(values) ==
    /\ added' = Append(added, values)
    /\ lastOp' = "add"
    /\ lateAdd' = (lateAdd \/ lastOp = "next")
    /\ UNCHANGED <<out, lastRet>>

\* What every next call records.  A call that aborts returns nothing.
NoteNext(r) ==
    /\ panicked' = r.panic
    /\ IF r.panic
       THEN UNCHANGED <<lastOp, lastRet, out>>
       ELSE /\ lastOp' = "next"
            /\ lastRet' = r.ret
            /\ out' = IF is_some(r.ret) THEN Append(out, unwrap(r.ret)) ELSE out
    /\ UNCHANGED <<added, lateAdd>>

SeqAdd ==
    /\ kind = "SeqIter" /\ ~panicked /\ Len(added) < MaxSeqs
    /\ \E values \in Inputs :
          /\ seq_iter' = SeqIter_add(seq_iter, BoxIter(values, Len(added)))
          /\ NoteAdd(values)
    /\ UNCHANGED <<kind, min_iter, choose_function, o_iter, o_out, panicked>>

SeqNext ==
    /\ kind = "SeqIter" /\ ~panicked
    /\ LET r == SeqIter_next(seq_iter) IN
          /\ seq_iter' = r.self
          /\ NoteNext(r)
    /\ UNCHANGED <<kind, min_iter, choose_function, o_iter, o_out>>

MultiAdd ==
    /\ kind = "MultiIterator" /\ ~panicked /\ Len(added) < MaxSeqs
    /\ \E values \in Inputs :
          /\ min_iter' = MultiIterator_add(min_iter, BoxIter(values, Len(added)))
          /\ NoteAdd(values)
    /\ UNCHANGED <<kind, seq_iter, choose_function, o_iter, o_out, panicked>>

MultiNext ==
    /\ kind = "MultiIterator" /\ ~panicked
    /\ \E f \in (IF Len(min_iter.head) = 0 THEN {choose_function}
                 ELSE ChooseFunctionsAfter(choose_function, min_iter.head)) :
          LET r == MultiIterator_choose(min_iter, f) IN
             /\ choose_function' = f
             /\ min_iter' = r.self
             /\ NoteNext(r)
    /\ UNCHANGED <<kind, seq_iter, o_iter, o_out>>

OrderedAdd ==
    /\ kind = "OrderedIterator" /\ ~panicked /\ Len(added) < MaxSeqs
    /\ \E values \in Inputs :
          /\ o_iter' = OrderedIterator_add(o_iter, BoxIter(values, Len(added)))
          /\ NoteAdd(values)
    /\ UNCHANGED <<kind, seq_iter, min_iter, choose_function, o_out, panicked>>

OrderedNext ==
    /\ kind = "OrderedIterator" /\ ~panicked
    /\ \E popped \in BinaryHeap_pop(o_iter.head) :
          LET r == OrderedIterator_choose(o_iter, popped) IN
             /\ o_iter' = r.self
             /\ NoteNext(r)
    /\ UNCHANGED <<kind, seq_iter, min_iter, choose_function, o_out>>

Next ==
    \/ SeqAdd
    \/ SeqNext
    \/ MultiAdd
    \/ MultiNext
    \/ OrderedAdd
    \/ OrderedNext

Spec == Init /\ [][Next]_vars

\* The caller keeps calling next().
FairSpec == Spec /\ WF_vars(SeqNext \/ MultiNext \/ OrderedNext)

-----------------------------------------------------------------------------
\* The two merges side by side, as test_multi_1 and test_ordered build them:
\* a MultiIterator with choose_fn and an OrderedIterator of new_min() that
\* are given the same sequences in the same order and are asked together.

PairInit ==
    /\ kind = "Pair"
    /\ seq_iter = SeqIter_new
    /\ min_iter = MultiIterator_new
    /\ choose_function = <<>>
    /\ o_iter = OrderedIterator_new_min
    /\ added = <<>>
    /\ out = <<>>
    /\ lastOp = "new"
    /\ lastRet = None
    /\ o_out = <<>>
    /\ lateAdd = FALSE
    /\ panicked = FALSE

\* choose_function as known once choose_fn was asked about head.
ChooseFnAfter(f, head) ==
    LET x == HeadValues(head) IN
    [y \in DOMAIN f \cup {x} |-> choose_fn(y)]

PairAdd ==
    /\ kind = "Pair" /\ ~panicked /\ Len(added) < MaxSeqs
    /\ \E values \in Inputs :
          /\ min_iter' = MultiIterator_add(min_iter, BoxIter(values, Len(added)))
          /\ o_iter' = OrderedIterator_add(o_iter, BoxIter(values, Len(added)))
          /\ NoteAdd(values)
    /\ UNCHANGED <<kind, seq_iter, choose_function, o_out, panicked>>

PairStep ==
    /\ kind = "Pair" /\ ~panicked
    /\ \E popped \in BinaryHeap_pop(o_iter.head) :
          LET f  == IF Len(min_iter.head) = 0 THEN choose_function
                    ELSE ChooseFnAfter(choose_function, min_iter.head)
              r  == MultiIterator_choose(min_iter, f)
              ro == OrderedIterator_choose(o_iter, popped)
          IN  /\ choose_function' = f
              /\ min_iter' = r.self
              /\ o_iter' = ro.self
              /\ NoteNext([r EXCEPT !.panic = r.panic \/ ro.panic])
              /\ o_out' = IF is_some(ro.ret) /\ ~(r.panic \/ ro.panic)
                          THEN Append(o_out, unwrap(ro.ret))
                          ELSE o_out
    /\ UNCHANGED <<kind, seq_iter>>

PairNext ==
    \/ PairAdd
    \/ PairStep

PairSpec == PairInit /\ [][PairNext]_vars

-----------------------------------------------------------------------------
\* Properties

\* Every element of the sequences given to add, in add order.
RECURSIVE Concat(_, _)
Concat(ss, src) ==
    IF ss = <<>> THEN <<>>
    ELSE BoxIter(Head(ss), src).rest \o Concat(Tail(ss), src + 1)

AllInputs == Concat(added, 0)
Range(s) == {s[i] : i \in 1..Len(s)}
Vals(s) == [i \in 1..Len(s) |-> s[i].v]
IsPrefix(a, b) == Len(a) <= Len(b) /\ a = SubSeq(b, 1, Len(a))
NonDecreasing(x) == \A i \in 1..(Len(x) - 1) : x[i] <= x[i + 1]
NonIncreasing(x) == \A i \in 1..(Len(x) - 1) : x[i] >= x[i + 1]
NoRepeats(s) == \A i, j \in 1..Len(s) : i # j => s[i] # s[j]

\* The last call was a next() that returned "no more elements".
Exhausted == lastOp = "next" /\ is_none(lastRet)

\* C1: SeqIter, all sequences added before the first next(): the elements
\* returned up to the first None are S1 ++ S2 ++ ... ++ Sn, each element once
\* and in add order; None is returned only when all of them were returned.
C1_SeqConcatenation ==
    (kind = "SeqIter" /\ ~lateAdd) =>
        /\ IsPrefix(out, AllInputs)
        /\ Exhausted => out = AllInputs
        /\ (lastOp = "next" /\ is_some(lastRet)) => unwrap(lastRet) = out[Len(out)]

C1_Witness ==
    /\ kind = "SeqIter" /\ ~lateAdd /\ Exhausted
    /\ Len(added) = 3 /\ added[2] = <<>> /\ Len(out) = 3

\* C2: OrderedIterator, all sequences added before the first next(): when
\* every added sequence is non-decreasing the output of a new_min merge is
\* non-decreasing, and when every added sequence is non-increasing the output
\* of a new_max merge is non-increasing.
C2_OrderedSorted ==
    (kind = "OrderedIterator" /\ ~lateAdd) =>
        /\ (o_iter.comparator = "new_min" /\ \A i \in 1..Len(added) : NonDecreasing(added[i]))
              => NonDecreasing(Vals(out))
        /\ (o_iter.comparator = "new_max" /\ \A i \in 1..Len(added) : NonIncreasing(added[i]))
              => NonIncreasing(Vals(out))

C2_Witness ==
    /\ kind = "OrderedIterator" /\ ~lateAdd /\ Exhausted
    /\ o_iter.comparator = "new_min"
    /\ \A i \in 1..Len(added) : NonDecreasing(added[i])
    /\ Len(out) = 3 /\ out[1].v < out[3].v
    /\ out[1].src = out[3].src /\ out[2].src # out[1].src

\* C3: OrderedIterator in either mode, inputs sorted or not: no element is
\* returned twice, every returned element is an element of an input, and when
\* next() returns None the number of elements returned is the sum of the
\* input lengths, so the returned elements are exactly the input elements.
C3_OrderedAllElements ==
    kind = "OrderedIterator" =>
        /\ NoRepeats(out)
        /\ Range(out) \subseteq Range(AllInputs)
        /\ Exhausted => (Len(out) = SumLen(added) /\ Range(out) = Range(AllInputs))

C3_Witness ==
    /\ kind = "OrderedIterator" /\ Exhausted
    /\ o_iter.comparator = "new_max"
    /\ \E i \in 1..Len(added) : ~NonIncreasing(added[i])
    /\ \E i \in 1..Len(added) : added[i] = <<>>
    /\ Len(out) = 3

\* The choose function has answered as choose_fn, the index of the first
\* least head, on every call so far.
MinSelector == \A x \in DOMAIN choose_function : choose_function[x] = choose_fn(x)

\* The choose function has answered None or an index out of range.
Vetoed ==
    \E x \in DOMAIN choose_function :
        \/ is_none(choose_function[x])
        \/ unwrap(choose_function[x]) >= Len(x)

\* Elements of equal value are returned in the order of their sequences, and
\* within one sequence in its order.
Stable(s) ==
    \A i, j \in 1..Len(s) :
        (i < j /\ s[i].v = s[j].v) =>
            \/ s[i].src < s[j].src
            \/ s[i].src = s[j].src /\ s[i].k < s[j].k

AllInputsNonDecreasing == \A i \in 1..Len(added) : NonDecreasing(added[i])

\* Every element is returned at most once, and all of them once next()
\* returned None.
ExactlyOnce ==
    /\ NoRepeats(out)
    /\ Range(out) \subseteq Range(AllInputs)
    /\ Exhausted => Range(out) = Range(AllInputs)

\* C4 as claimed: MultiIterator with the first-minimum choose function, all
\* sequences added before the first next(), any inputs: every element is
\* returned exactly once and the output is non-decreasing and stable.
C4_MinSelectorSortsAnyInputs ==
    (kind = "MultiIterator" /\ ~lateAdd /\ MinSelector) =>
        /\ ExactlyOnce
        /\ NonDecreasing(Vals(out))
        /\ Stable(out)

\* C4 as amended: MultiIterator with the first-minimum choose function, all
\* sequences added before the first next(): every element is returned exactly
\* once for any inputs, and when every input is non-decreasing the output is
\* non-decreasing and stable.
C4_MinSelectorMergesSortedInputs ==
    (kind = "MultiIterator" /\ ~lateAdd /\ MinSelector) =>
        /\ ExactlyOnce
        /\ AllInputsNonDecreasing => (NonDecreasing(Vals(out)) /\ Stable(out))

C4_Witness ==
    /\ kind = "MultiIterator" /\ ~lateAdd /\ MinSelector /\ Exhausted
    /\ AllInputsNonDecreasing
    /\ Len(out) = 3 /\ out[1].v = out[2].v /\ out[2].v < out[3].v
    /\ out[1].src = out[3].src /\ out[2].src # out[1].src

\* C5 as claimed: MultiIterator: once the choose function has answered None
\* or an index out of range, that call and every later call of next() return
\* no element, whatever data remains and whatever is called afterwards.
C5_VetoEndsTheIterator ==
    [][(kind = "MultiIterator" /\ Vetoed') => out' = out]_vars

\* C6: each combinator, with no sequence added or only empty sequences added:
\* a call of next() returns None (so does the first), nothing is returned and
\* nothing aborts.
C6_EmptyInputs ==
    (\A i \in 1..Len(added) : added[i] = <<>>) =>
        /\ ~panicked
        /\ out = <<>>
        /\ lastOp = "next" => is_none(lastRet)

C6_Witness ==
    /\ kind = "OrderedIterator" /\ lastOp = "next" /\ ~lateAdd
    /\ Len(added) = 2 /\ \A i \in 1..Len(added) : added[i] = <<>>

\* C7: SeqIter, add and next in any order: what was returned is always the
\* start of the concatenation of the added sequences in add order (so an add
\* changes neither what was returned nor what the earlier sequences still
\* give), and it is all of it whenever next() returns None.
C7_SeqAddAnyTime ==
    kind = "SeqIter" =>
        /\ IsPrefix(out, AllInputs)
        /\ Exhausted => out = AllInputs

C7_Witness ==
    /\ kind = "SeqIter" /\ lateAdd /\ Exhausted
    /\ Len(added) = 3 /\ Len(added[1]) = 2 /\ Len(added[3]) = 1
    /\ seq_iter.iters[1].polls = 3 /\ Len(out) = 3

\* C8: no call of add or next aborts: every unwrap finds a value, every index
\* is in range and head.len() - 1 does not go below 0.
C8_NoPanic == ~panicked

C8_Witness ==
    /\ kind = "MultiIterator" /\ ~panicked /\ Exhausted
    /\ Len(out) = 2 /\ Len(min_iter.head) = 1
    /\ \E x \in DOMAIN choose_function :
          is_some(choose_function[x]) /\ unwrap(choose_function[x]) = Len(x)

\* C9: MultiIterator, a next() for which the choose function answers a valid
\* index i: the call returns the element that was in head slot i; it pulls
\* once from sequence i and from no other; the element pulled replaces head
\* slot i, or, when sequence i is exhausted, slot i and its iterator are
\* removed; the other slots and iterators keep their values and their order.
C9_MultiStepEffect ==
    [][(kind = "MultiIterator" /\ out' # out) =>
          LET h   == min_iter.head
              its == min_iter.iters
              i   == unwrap(choose_function'[HeadValues(h)]) + 1
          IN  /\ i \in 1..Len(h)
              /\ Len(its) = Len(h)
              /\ lastRet' = Some(h[i])
              /\ out' = Append(out, h[i])
              /\ IF its[i].rest # <<>>
                 THEN /\ min_iter'.head = [h EXCEPT ![i] = Head(its[i].rest)]
                      /\ min_iter'.iters =
                            [its EXCEPT ![i] = [rest  |-> Tail(its[i].rest),
                                               polls |-> its[i].polls + 1]]
                 ELSE /\ min_iter'.head =
                            SubSeq(h, 1, i - 1) \o SubSeq(h, i + 1, Len(h))
                      /\ min_iter'.iters =
                            SubSeq(its, 1, i - 1) \o SubSeq(its, i + 1, Len(its))
    ]_vars

C9_Witness ==
    /\ kind = "MultiIterator" /\ Len(added) = 3
    /\ Len(out) = 2 /\ out[1].src = 2 /\ out[2].src = 0
    /\ Len(min_iter.head) = 1 /\ min_iter.head[1].src = 1

-----------------------------------------------------------------------------
\* The elements of the sequence given to the add call number src (from 0).
Orig(src) == BoxIter(added[src + 1], src).rest

\* The add calls (from 0) that gave a sequence that was not empty, in order:
\* MultiIterator and OrderedIterator register these and no others.
NonEmptySrcs ==
    SelectSeq([i \in 1..Len(added) |-> i - 1], LAMBDA s : added[s + 1] # <<>>)

AllInputsNonIncreasing == \A i \in 1..Len(added) : NonIncreasing(added[i])

\* C11 as claimed: OrderedIterator, add and next in any order: when every
\* added sequence is non-decreasing (new_min) or non-increasing (new_max), all
\* that was returned is non-decreasing (non-increasing).
C11_SortedWithInterleavedAdds ==
    kind = "OrderedIterator" =>
        /\ (o_iter.comparator = "new_min" /\ AllInputsNonDecreasing)
              => NonDecreasing(Vals(out))
        /\ (o_iter.comparator = "new_max" /\ AllInputsNonIncreasing)
              => NonIncreasing(Vals(out))

\* C11 as amended: OrderedIterator, add and next in any order, every added
\* sequence non-decreasing (new_min) or non-increasing (new_max): an element
\* returned by a next() that follows a next() with no add in between is not
\* less (not greater) than the element returned before it; and no step
\* changes what was returned before it, an add returns nothing.
C11_SortedBetweenAdds ==
    [][kind = "OrderedIterator" =>
          /\ IsPrefix(out, out')
          /\ added' # added => out' = out
          /\ (lastOp = "next" /\ out # <<>> /\ out' # out) =>
                /\ (o_iter.comparator = "new_min" /\ AllInputsNonDecreasing)
                      => out[Len(out)].v <= out'[Len(out')].v
                /\ (o_iter.comparator = "new_max" /\ AllInputsNonIncreasing)
                      => out[Len(out)].v >= out'[Len(out')].v
    ]_vars

C11_Witness ==
    /\ kind = "OrderedIterator" /\ lateAdd
    /\ o_iter.comparator = "new_min" /\ AllInputsNonDecreasing
    /\ Len(added) = 2 /\ Len(out) = 3
    /\ out[1].v > out[2].v /\ out[2].v <= out[3].v

\* C12: OrderedIterator, between calls: the iterators stored are those of the
\* sequences that were not empty when added, in add order; the heap holds one
\* entry for each stored sequence that has not reported exhaustion and none
\* for the others; the entry of a sequence holds the last element pulled from
\* it, which was not returned yet, under the index of its iterator; so the
\* indices in the heap are distinct, below the number of stored iterators,
\* and an index always names the same sequence.
C12_HeapEntries ==
    kind = "OrderedIterator" =>
        LET its  == o_iter.iters
            heap == BagToSet(o_iter.head)
        IN  /\ Len(its) = Len(NonEmptySrcs)
            /\ BinaryHeap_len(o_iter.head) = Cardinality(heap)
            /\ \A e \in heap :
                  /\ e.iter_index \in 0..(Len(its) - 1)
                  /\ e.comparator = o_iter.comparator
                  /\ \A d \in heap : d.iter_index = e.iter_index => d = e
            /\ \A i \in 1..Len(its) :
                  LET orig    == Orig(NonEmptySrcs[i])
                      pulled  == its[i].polls
                      entries == {e \in heap : e.iter_index = i - 1}
                  IN  /\ pulled \in 1..(Len(orig) + 1)
                      /\ IF pulled <= Len(orig)
                         THEN /\ entries = {[what       |-> orig[pulled],
                                             comparator |-> o_iter.comparator,
                                             iter_index |-> i - 1]}
                              /\ its[i].rest = SubSeq(orig, pulled + 1, Len(orig))
                              /\ orig[pulled] \notin Range(out)
                              /\ \A k \in 1..(pulled - 1) : orig[k] \in Range(out)
                         ELSE /\ entries = {}
                              /\ its[i].rest = <<>>
                              /\ Range(orig) \subseteq Range(out)

C12_Witness ==
    /\ kind = "OrderedIterator" /\ lateAdd
    /\ Len(added) = 3 /\ added[1] = <<>> /\ Len(added[2]) = 1 /\ Len(added[3]) = 2
    /\ Len(o_iter.iters) = 2 /\ o_iter.iters[1].polls = 2
    /\ BinaryHeap_len(o_iter.head) = 1 /\ Len(out) = 2

\* C13: OrderedIterator, a next() that finds the heap not empty, inputs sorted
\* or not: the element returned is one of the heap's elements, a least one of
\* them for new_min and a greatest one for new_max; and no step changes the
\* direction.
C13_StepSelection ==
    [][kind = "OrderedIterator" =>
          /\ o_iter'.comparator = o_iter.comparator
          /\ (added' = added /\ BinaryHeap_len(o_iter.head) > 0) =>
                /\ Len(out') = Len(out) + 1
                /\ \E e \in BagToSet(o_iter.head) : e.what = out'[Len(out')]
                /\ \A e \in BagToSet(o_iter.head) :
                      IF o_iter.comparator = "new_min"
                      THEN out'[Len(out')].v <= e.what.v
                      ELSE out'[Len(out')].v >= e.what.v
    ]_vars

C13_Witness ==
    /\ kind = "OrderedIterator" /\ ~lateAdd
    /\ o_iter.comparator = "new_max"
    /\ Len(added) = 2 /\ added[1] = <<1, 2>> /\ added[2] = <<2>>
    /\ Len(out) = 2 /\ out[1].src = 1 /\ out[2].src = 0

\* C14: in the three combinators an iterator that returned None is not asked
\* again: SeqIter and OrderedIterator ask a stored iterator at most once more
\* than it has elements; MultiIterator stores only iterators that did not
\* return None (it drops one when it does, and one that is empty at add), and
\* asked each as often as its head slot says.
C14_NoPullAfterExhaustion ==
    /\ kind = "SeqIter" =>
          /\ Len(seq_iter.iters) = Len(added)
          /\ \A i \in 1..Len(seq_iter.iters) :
                seq_iter.iters[i].polls <= Len(added[i]) + 1
    /\ kind = "OrderedIterator" =>
          /\ Len(o_iter.iters) = Len(NonEmptySrcs)
          /\ \A i \in 1..Len(o_iter.iters) :
                o_iter.iters[i].polls <= Len(Orig(NonEmptySrcs[i])) + 1
    /\ kind = "MultiIterator" =>
          /\ Len(min_iter.iters) = Len(min_iter.head)
          /\ \A i \in 1..Len(min_iter.iters) :
                /\ min_iter.iters[i].polls = min_iter.head[i].k
                /\ min_iter.iters[i].polls <= Len(Orig(min_iter.head[i].src))

C14_Witness ==
    /\ kind = "SeqIter" /\ lateAdd /\ Exhausted
    /\ Len(added) = 3 /\ added[1] = <<>> /\ Len(added[2]) = 2
    /\ \A i \in 1..3 : seq_iter.iters[i].polls = Len(added[i]) + 1

\* The answer a of the choose function for n heads is None or out of range.
IsVeto(a, n) == is_none(a) \/ unwrap(a) >= n

\* C15: MultiIterator, a next() for which the choose function answers None or
\* an index out of range: it returns None, pulls from no sequence and leaves
\* every head slot and every iterator as it was, and does not abort; an index
\* out of range has the same effect as None.
C15_VetoChangesNothing ==
    [][(/\ kind = "MultiIterator"
        /\ added' = added
        /\ min_iter.head # <<>>
        /\ IsVeto(choose_function'[HeadValues(min_iter.head)], Len(min_iter.head)))
       => /\ min_iter' = min_iter
          /\ out' = out
          /\ lastOp' = "next" /\ is_none(lastRet')
          /\ ~panicked'
    ]_vars

C15_Witness ==
    /\ kind = "MultiIterator" /\ Exhausted /\ ~panicked
    /\ Len(min_iter.head) = 2 /\ Len(out) = 1
    /\ min_iter.iters[1].rest = <<>> /\ min_iter.iters[2].rest = <<>>
    /\ HeadValues(min_iter.head) \in DOMAIN choose_function
    /\ choose_function[HeadValues(min_iter.head)] = Some(2)

\* Where SeqIter stands: the sequences before ptr reported exhaustion, the
\* one at ptr did not, the ones after it were never asked.
SeqDiscipline ==
    /\ Len(seq_iter.iters) = Len(added)
    /\ seq_iter.ptr <= Len(seq_iter.iters)
    /\ \A i \in 1..Len(seq_iter.iters) :
          LET it == seq_iter.iters[i] IN
          IF i <= seq_iter.ptr
          THEN it.polls = Len(added[i]) + 1 /\ it.rest = <<>>
          ELSE IF i = seq_iter.ptr + 1
          THEN /\ it.polls <= Len(added[i])
               /\ it.rest = SubSeq(Orig(i - 1), it.polls + 1, Len(added[i]))
          ELSE it.polls = 0 /\ it.rest = Orig(i - 1)

\* The sequence of the last add call, as it was handed over.
OrigLast == Orig(Len(added) - 1)

\* C16: SeqIter: add pulls nothing from the sequence it stores; next asks no
\* sequence while an earlier one has not reported exhaustion; a next() that
\* returns an element takes it from the first sequence that has not reported
\* exhaustion and has an element, takes one element from that sequence only,
\* and its other pulls are the ones, one each, by which the sequences it
\* passes report exhaustion.
C16_SeqPullDiscipline ==
    [][kind = "SeqIter" =>
          LET its  == seq_iter.iters
              its2 == seq_iter'.iters
              p    == seq_iter.ptr
              p2   == seq_iter'.ptr
          IN  /\ SeqDiscipline'
              /\ added' # added =>
                    /\ p2 = p
                    /\ its2 = Append(its, [rest  |-> OrigLast',
                                           polls |-> 0])
              /\ out' # out =>
                    /\ Len(its2) = Len(its) /\ p2 >= p /\ p2 < Len(its)
                    /\ \A j \in 1..Len(its) :
                          IF j = p2 + 1
                          THEN /\ its[j].rest # <<>>
                               /\ lastRet' = Some(Head(its[j].rest))
                               /\ its2[j].rest = Tail(its[j].rest)
                               /\ its2[j].polls = its[j].polls + 1
                          ELSE IF j > p /\ j <= p2
                          THEN /\ its[j].rest = <<>> /\ its2[j].rest = <<>>
                               /\ its2[j].polls = its[j].polls + 1
                          ELSE its2[j] = its[j]
    ]_vars

C16_Witness ==
    /\ kind = "SeqIter" /\ ~lateAdd /\ lastOp = "next" /\ is_some(lastRet)
    /\ Len(added) = 3 /\ Len(added[1]) = 1 /\ added[2] = <<>> /\ Len(added[3]) = 2
    /\ seq_iter.ptr = 2 /\ Len(out) = 2
    /\ seq_iter.iters[2].polls = 1 /\ seq_iter.iters[3].polls = 1

\* C17: MultiIterator, between calls: head and iters have the same length;
\* head[i] is the element last pulled from iters[i], not returned yet, while
\* all elements pulled before it were returned (pulled = returned + 1); the
\* stored sequences are, in add order, the added sequences that still have an
\* element that was not returned; a sequence empty when added is not stored.
C17_HeadSlots ==
    kind = "MultiIterator" =>
        LET h   == min_iter.head
            its == min_iter.iters
        IN  /\ Len(h) = Len(its)
            /\ \A i \in 1..Len(h) :
                  LET orig == Orig(h[i].src) IN
                  /\ h[i].src \in 0..(Len(added) - 1)
                  /\ h[i].k \in 1..Len(orig)
                  /\ h[i] = orig[h[i].k]
                  /\ its[i].polls = h[i].k
                  /\ its[i].rest = SubSeq(orig, h[i].k + 1, Len(orig))
                  /\ h[i] \notin Range(out)
                  /\ \A k \in 1..(h[i].k - 1) : orig[k] \in Range(out)
            /\ \A i, j \in 1..Len(h) : i < j => h[i].src < h[j].src
            /\ {h[i].src : i \in 1..Len(h)} =
                  {s \in 0..(Len(added) - 1) : ~(Range(Orig(s)) \subseteq Range(out))}

C17_Witness ==
    /\ kind = "MultiIterator" /\ lateAdd
    /\ Len(added) = 3 /\ added[1] = <<>> /\ Len(added[2]) = 2 /\ Len(added[3]) = 1
    /\ Len(out) = 1 /\ out[1].src = 2
    /\ Len(min_iter.head) = 1 /\ min_iter.head[1].src = 1 /\ min_iter.head[1].k = 1

\* The elements of s that came from the add call src, in the order of s.
FromSrc(s, src) == SelectSeq(s, LAMBDA e : e.src = src)

\* C18: MultiIterator with any choose function and OrderedIterator in either
\* mode, inputs sorted or not: at every point the returned elements that came
\* from one input sequence are the first elements of that sequence, in its
\* order.
C18_SourceOrderKept ==
    kind \in {"MultiIterator", "OrderedIterator"} =>
        \A s \in 0..(Len(added) - 1) :
            FromSrc(out, s) = SubSeq(Orig(s), 1, Len(FromSrc(out, s)))

C18_Witness ==
    /\ kind = "MultiIterator" /\ ~MinSelector /\ ~Vetoed
    /\ Len(added) = 2 /\ added[1] = <<2, 1>> /\ added[2] = <<1>>
    /\ Len(out) = 3 /\ out[1].src = 0 /\ out[2].src = 1 /\ out[3].src = 0

\* The elements handed over that were not returned yet.
Unemitted == Range(AllInputs) \ Range(out)

\* The step is a next() call that did not abort.
NextStep == lastOp' = "next" /\ added' = added /\ ~panicked'

C20_MergesAgree ==
    (kind = "Pair" /\ ~lateAdd /\ AllInputsNonDecreasing) =>
        /\ Vals(out) = Vals(o_out)
        /\ NonDecreasing(Vals(out))
        /\ Exhausted => (Len(out) = SumLen(added) /\ Len(o_out) = SumLen(added))

\* Both went through <<1, 2>> and <<1>> to the end; the OrderedIterator took
\* the 1 of the second sequence first, the MultiIterator the other one.
C20_Witness ==
    /\ kind = "Pair" /\ ~lateAdd /\ Exhausted
    /\ added = <<(<<1, 2>>), (<<1>>)>>
    /\ Len(out) = 3 /\ Len(o_out) = 3
    /\ out[1].src = 0 /\ o_out[1].src = 1
====
